---- MODULE Spec2Model ----
(***************************************************************************)
(* A model of the social-network graph engine: CapNode (vertex store),     *)
(* CapGraph (directed graph, SCC decomposition, influence ranking) and     *)
(* TrendSetterComparator.                                                  *)
(*                                                                         *)
(* A CapGraph's listMap is a JavaScript Map<number, CapNode>: it iterates  *)
(* in insertion order and Map.set on an existing key keeps the key's       *)
(* position.  It is modelled as a sequence of CapNode records with         *)
(* pairwise distinct names.                                                *)
(***************************************************************************)
EXTENDS Integers, Sequences, FiniteSets, TLC

\* Vertex IDs offered to the operations are 1..NumIDs.
NumIDs == 2
\* addEdge is offered while fewer than MaxEdges following entries and fewer
\* than MaxEdges followers entries exist in the whole graph.
MaxEdges == 3

\* The analysis path builds graphs of up to BuildIDs vertices and BuildEdges
\* edges.
BuildIDs == 3
BuildEdges == 4

\* The simulation path builds any graph of up to CoreIDs vertices and
\* CoreEdges edges, and chains of followers of up to LongIDs vertices.
CoreIDs == 3
CoreEdges == 3
LongIDs == 12
\* startViralSharingWithLimit is offered the depths 0..MaxDepthArg, its
\* default and a depth no chain exceeds.
MaxDepthArg == 1

\* The path of all operations offers up to OpsIDs vertex IDs, and addEdge
\* while fewer than OpsEdges following entries and fewer than OpsEdges
\* followers entries exist.
OpsIDs == 3
OpsEdges == 2

IDs == 1..NumIDs

----------------------------------------------------------------------------
(* Sequence helpers: the Array methods the code uses. *)

\* Array.prototype.includes
includes(s, x) == \E i \in 1..Len(s) : s[i] = x

\* Array.prototype.indexOf, 1-based; 0 stands for JavaScript's -1.
indexOf(s, x) ==
  IF includes(s, x) THEN CHOOSE i \in 1..Len(s) : s[i] = x /\ \A j \in 1..(i - 1) : s[j] # x
  ELSE 0

\* s without its element at 1-based position i (i in 1..Len(s)).
RemoveAt(s, i) == [j \in 1..(Len(s) - 1) |-> IF j < i THEN s[j] ELSE s[j + 1]]

\* Array.prototype.splice(index, 1) for the index indexOf yields: a negative
\* start counts from the end, so splice(-1, 1) removes the last element.
splice1(s, idx) ==
  IF idx > 0 THEN RemoveAt(s, idx)
  ELSE IF Len(s) > 0 THEN RemoveAt(s, Len(s))
  ELSE s

Range(s) == {s[i] : i \in 1..Len(s)}

\* Number of occurrences of x in s.
Count(s, x) == Cardinality({i \in 1..Len(s) : s[i] = x})

----------------------------------------------------------------------------
(* CapNode *)

\* new CapNode(name)
CapNode(name) ==
  [name |-> name, neighbors |-> <<>>, followers |-> <<>>, isTrendSetter |-> FALSE]

\* A bug that records a follower only once.
addFollowerOnce(node, follower) ==
  IF includes(node.followers, follower) THEN node
  ELSE [node EXCEPT !.followers = Append(@, follower)]

addFollower(node, follower) == [node EXCEPT !.followers = Append(@, follower)]

\* A bug that deduplicates on insert.
addNeighborOnce(node, neighbor) ==
  IF includes(node.neighbors, neighbor) THEN node
  ELSE [node EXCEPT !.neighbors = Append(@, neighbor)]

addNeighbor(node, neighbor) == [node EXCEPT !.neighbors = Append(@, neighbor)]

removeNeighborLogs(node, neighbor) == indexOf(node.neighbors, neighbor) = 0

\* A bug that removes the last occurrence instead of the first.
removeNeighborLast(node, neighbor) ==
  LET s == node.neighbors IN
  IF includes(s, neighbor)
  THEN [node EXCEPT !.neighbors =
          RemoveAt(s, CHOOSE i \in 1..Len(s) :
                        s[i] = neighbor /\ \A j \in (i + 1)..Len(s) : s[j] # neighbor)]
  ELSE [node EXCEPT !.neighbors = splice1(s, 0)]

removeNeighbor(node, neighbor) ==
  [node EXCEPT !.neighbors = splice1(@, indexOf(@, neighbor))]

getNumNeighbors(node) == Len(node.neighbors)

setIsTrendSetter(node, bool) == [node EXCEPT !.isTrendSetter = bool]

----------------------------------------------------------------------------
(* The Map<number, CapNode> of a CapGraph. *)

getVertexIDs(m) == [i \in 1..Len(m) |-> m[i].name]

KeySet(m) == {m[i].name : i \in 1..Len(m)}

MapHas(m, k) == k \in KeySet(m)

MapIndex(m, k) == CHOOSE i \in 1..Len(m) : m[i].name = k

\* Map.get for a key that is present.
MapGet(m, k) == m[MapIndex(m, k)]

\* Map.set: an existing key keeps its place, a new key goes last.
MapSet(m, k, node) ==
  IF MapHas(m, k) THEN [m EXCEPT ![MapIndex(m, k)] = node] ELSE Append(m, node)

\* new CapGraph()
EmptyGraph == <<>>

\* A bug that keeps the vertex that is already there.
addVertexIfAbsent(m, num) == IF MapHas(m, num) THEN m ELSE MapSet(m, num, CapNode(num))

addVertex(m, num) == MapSet(m, num, CapNode(num))

\* new CapGraph(node)
NewCapGraph(node) == addVertex(EmptyGraph, node)

----------------------------------------------------------------------------
(* CapGraph: vertex lookup and edge mutation.  An operation that can throw  *)
(* yields a record whose field threw tells whether getVertex raised        *)
(* "Vertex n not found"; its other fields hold whatever the call had done  *)
(* to the graph by then.                                                   *)

\* getVertex(num) throws exactly when the key is absent.
getVertexThrows(m, num) == ~MapHas(m, num)

addEdge(m, from, to) ==
  IF getVertexThrows(m, from) THEN [threw |-> TRUE, map |-> m]
  ELSE LET m1 == MapSet(m, from, addNeighbor(MapGet(m, from), to)) IN
       IF getVertexThrows(m1, to) THEN [threw |-> TRUE, map |-> m1]
       ELSE [threw |-> FALSE, map |-> MapSet(m1, to, addFollower(MapGet(m1, to), from))]

\* A variant that looks up both ends before removing, as addEdge does.
removeEdgeChecksTo(m, from, to) ==
  IF getVertexThrows(m, from) \/ getVertexThrows(m, to)
  THEN [threw |-> TRUE, logged |-> FALSE, map |-> m]
  ELSE [threw  |-> FALSE,
        logged |-> removeNeighborLogs(MapGet(m, from), to),
        map    |-> MapSet(m, from, removeNeighbor(MapGet(m, from), to))]

removeEdge(m, from, to) ==
  IF getVertexThrows(m, from) THEN [threw |-> TRUE, logged |-> FALSE, map |-> m]
  ELSE [threw  |-> FALSE,
        logged |-> removeNeighborLogs(MapGet(m, from), to),
        map    |-> MapSet(m, from, removeNeighbor(MapGet(m, from), to))]

\* egoNodes.forEach(n => egonet.addVertex(n)), from position i on.
RECURSIVE addVertexEach(_, _, _)
addVertexEach(g, nodes, i) ==
  IF i > Len(nodes) THEN g ELSE addVertexEach(addVertex(g, nodes[i]), nodes, i + 1)

\* A bug that copies every neighbor into the egonet.
egoNeighborsUnfiltered(egoNodes, origiNeighbors) == origiNeighbors

\* origiNeighbors.forEach(neighbor => { if (egoNodes.includes(neighbor)) ... })
egoNeighbors(egoNodes, origiNeighbors) ==
  LET keep(neighbor) == includes(egoNodes, neighbor) IN SelectSeq(origiNeighbors, keep)

getEgonet(m, center) ==
  IF getVertexThrows(m, center) THEN [threw |-> TRUE, graph |-> EmptyGraph]
  ELSE LET egoNodes == Append(MapGet(m, center).neighbors, center)
           egonet   == addVertexEach(EmptyGraph, egoNodes, 1)
       IN IF \E i \in 1..Len(egonet) : getVertexThrows(m, egonet[i].name)
          THEN [threw |-> TRUE, graph |-> EmptyGraph]
          ELSE [threw |-> FALSE,
                graph |-> [i \in 1..Len(egonet) |->
                            [egonet[i] EXCEPT !.neighbors =
                               egoNeighbors(egoNodes, MapGet(m, egonet[i].name).neighbors)]]]

\* A bug that exports the followers lists.
exportGraphFollowers(m) ==
  [i \in 1..Len(m) |-> [num |-> m[i].name, neighbors |-> Range(m[i].followers)]]

\* exportGraph: the Map<number, Set<number>> as the sequence of its entries.
exportGraph(m) ==
  [i \in 1..Len(m) |-> [num |-> m[i].name, neighbors |-> Range(m[i].neighbors)]]

----------------------------------------------------------------------------
(* SCC decomposition.  A traversal state is a record                        *)
(*   visited    : the Set<number> of visited IDs,                           *)
(*   finished   : the finished array (dfsVisit unshifts onto its front),    *)
(*   sccNodeIDs : the array dfsVisit pushes onto,                           *)
(*   threw      : whether graph.getVertex raised.                           *)

NewTraversal ==
  [visited |-> {}, finished |-> <<>>, sccNodeIDs |-> <<>>, threw |-> FALSE]

RECURSIVE dfsVisit(_, _, _)
RECURSIVE dfsVisitNeighbors(_, _, _, _)

\* neighbors.forEach(n => { if (!visited.has(n)) dfsVisit(graph, n, ...) }),
\* from position i on.
dfsVisitNeighbors(graph, neighbors, i, st) ==
  IF st.threw \/ i > Len(neighbors) THEN st
  ELSE dfsVisitNeighbors(graph, neighbors, i + 1,
         IF neighbors[i] \in st.visited THEN st ELSE dfsVisit(graph, neighbors[i], st))

dfsVisit(graph, v, st) ==
  LET entered == [st EXCEPT !.visited = @ \cup {v}] IN
  IF getVertexThrows(graph, v) THEN [entered EXCEPT !.threw = TRUE]
  ELSE LET explored == dfsVisitNeighbors(graph, MapGet(graph, v).neighbors, 1, entered) IN
       IF explored.threw THEN explored
       ELSE [explored EXCEPT !.finished = <<v>> \o @, !.sccNodeIDs = Append(@, v)]

\* The while loop of dfs: vertices.pop() takes the last element.
RECURSIVE dfsLoop(_, _, _)
dfsLoop(graph, vertices, st) ==
  IF st.threw \/ Len(vertices) = 0 THEN st
  ELSE LET v == vertices[Len(vertices)] IN
       dfsLoop(graph, SubSeq(vertices, 1, Len(vertices) - 1),
               IF v \in st.visited THEN st ELSE dfsVisit(graph, v, st))

\* dfs(graph, vertices, sccNodeIDs) returns finished.
dfs(graph, vertices) == dfsLoop(graph, vertices, NewTraversal)

\* transposedNeighbor.addNeighbor(v) for neighbors[i..], adding absent vertices.
RECURSIVE transposeNeighbors(_, _, _, _)
transposeNeighbors(t, v, neighbors, i) ==
  IF i > Len(neighbors) THEN t
  ELSE LET n  == neighbors[i]
           t1 == IF MapHas(t, n) THEN t ELSE addVertex(t, n)
       IN transposeNeighbors(MapSet(t1, n, addNeighbor(MapGet(t1, n), v)), v, neighbors, i + 1)

\* vertices.forEach(v => ...) of transpose, from position i on.
RECURSIVE transposeLoop(_, _, _, _)
transposeLoop(graph, vertices, i, t) ==
  IF i > Len(vertices) THEN t
  ELSE LET v  == vertices[i]
           t1 == IF MapHas(t, v) THEN t ELSE addVertex(t, v)
       IN transposeLoop(graph, vertices, i + 1,
                        transposeNeighbors(t1, v, MapGet(graph, v).neighbors, 1))

\* A bug that copies the vertices into the transpose but none of the edges.
transposeVerticesOnly(graph) == addVertexEach(EmptyGraph, getVertexIDs(graph), 1)

transpose(graph) == transposeLoop(graph, getVertexIDs(graph), 1, EmptyGraph)

\* A variant that keeps only the edges between the collected IDs.
RECURSIVE buildSCCInduced(_, _, _, _)
buildSCCInduced(this, scc, sccNodeIDs, i) ==
  IF i > Len(sccNodeIDs) THEN scc
  ELSE LET nodeID    == sccNodeIDs[i]
           inside(n) == includes(sccNodeIDs, n)
       IN buildSCCInduced(this,
                          MapSet(scc, nodeID,
                                 [CapNode(nodeID) EXCEPT !.neighbors =
                                    SelectSeq(MapGet(this, nodeID).neighbors, inside)]),
                          sccNodeIDs, i + 1)

\* The component graph dfsGraphList builds for root v and the collected IDs:
\* new CapGraph(v), then for each collected ID addVertex and a copy of the
\* source vertex's whole neighbors list.
RECURSIVE buildSCC(_, _, _, _)
buildSCC(this, scc, sccNodeIDs, i) ==
  IF i > Len(sccNodeIDs) THEN scc
  ELSE LET nodeID == sccNodeIDs[i] IN
       buildSCC(this,
                MapSet(scc, nodeID,
                       [CapNode(nodeID) EXCEPT !.neighbors = MapGet(this, nodeID).neighbors]),
                sccNodeIDs, i + 1)

\* A bug that leaves the collected IDs on the stack.
remainingVerticesUnfiltered(vertices, sccNodeIDs) == vertices

\* The vertices that stay on the stack after a component was collected.
remainingVertices(vertices, sccNodeIDs) ==
  LET keep(id) == ~includes(sccNodeIDs, id) IN SelectSeq(vertices, keep)

\* The while loop of dfsGraphList; acc is [st, sccList]: the traversal state
\* and the list of component graphs so far.
RECURSIVE dfsGraphListLoop(_, _, _, _)
dfsGraphListLoop(this, graph, vertices, acc) ==
  IF acc.st.threw \/ Len(vertices) = 0 THEN acc
  ELSE LET v       == vertices[Len(vertices)]
           popped  == SubSeq(vertices, 1, Len(vertices) - 1)
           fresh   == v \notin acc.st.visited
           st1     == IF fresh THEN dfsVisit(graph, v, acc.st) ELSE acc.st
           rest    == IF fresh THEN remainingVertices(popped, st1.sccNodeIDs) ELSE popped
           missing == \E i \in 1..Len(st1.sccNodeIDs) :
                        getVertexThrows(this, st1.sccNodeIDs[i])
       IN IF st1.threw \/ missing
          THEN [acc EXCEPT !.st = [st1 EXCEPT !.threw = TRUE]]
          ELSE dfsGraphListLoop(this, graph, rest,
                 [st      |-> [st1 EXCEPT !.sccNodeIDs = <<>>],
                  sccList |-> Append(acc.sccList,
                                     buildSCC(this, NewCapGraph(v), st1.sccNodeIDs, 1))])

dfsGraphList(this, graph, vertices) ==
  dfsGraphListLoop(this, graph, vertices, [st |-> NewTraversal, sccList |-> <<>>])

\* getSCCs: whether it threw, and the returned list of component graphs.
getSCCs(this) ==
  LET first == dfs(this, getVertexIDs(this)) IN
  IF first.threw THEN [threw |-> TRUE, sccList |-> <<>>]
  ELSE LET second == dfsGraphList(this, transpose(this), first.finished) IN
       [threw |-> second.st.threw,
        sccList |-> IF second.st.threw THEN <<>> ELSE second.sccList]

----------------------------------------------------------------------------
(* Influence ranking. *)

\* A comparator that ranks by the number of followers.
compareFollowers(node1, node2) == Len(node1.followers) - Len(node2.followers)

\* TrendSetterComparator.compare
compare(node1, node2) == getNumNeighbors(node1) - getNumNeighbors(node2)

\* A bug that rounds down.
calculatePercentFloor(number, tenths) == (number * tenths) \div 10

\* Math.ceil(number * percentage) for percentage = tenths / 10.  In IEEE
\* doubles n * 0.1 and n * 0.2 round to values with the exact ceiling for
\* every n below 100000, so integer arithmetic gives the same result.
calculatePercent(number, tenths) == (number * tenths + 9) \div 10

\* Array.prototype.sort((a, b) => -compare(a, b)), a stable sort: x goes
\* before the first element the comparison function puts strictly after it.
RECURSIVE sortDescending(_, _, _)
sortDescending(sorted, queue, i) ==
  IF i > Len(queue) THEN sorted
  ELSE LET x   == queue[i]
           pos == IF \E j \in 1..Len(sorted) : -compare(x, sorted[j]) < 0
                  THEN CHOOSE j \in 1..Len(sorted) :
                         /\ -compare(x, sorted[j]) < 0
                         /\ \A k \in 1..(j - 1) : -compare(x, sorted[k]) >= 0
                  ELSE Len(sorted) + 1
       IN sortDescending(SubSeq(sorted, 1, pos - 1) \o <<x>> \o SubSeq(sorted, pos, Len(sorted)),
                         queue, i + 1)

\* buildNodeQueue: the nodes of this graph for the component's IDs, sorted.
buildNodeQueue(this, scc) ==
  sortDescending(<<>>, [i \in 1..Len(scc) |-> MapGet(this, scc[i].name)], 1)

\* A ranker that also clears the flag of every member it does not pick.
RECURSIVE flagFirstClearingRest(_, _, _, _)
flagFirstClearingRest(this, queue, numTrendSetters, i) ==
  IF i > Len(queue) THEN this
  ELSE flagFirstClearingRest(MapSet(this, queue[i].name,
                                    setIsTrendSetter(MapGet(this, queue[i].name),
                                                     i <= numTrendSetters)),
                             queue, numTrendSetters, i + 1)

\* A ranker that picks among the members not flagged yet.
flagFirstUnflagged(this, queue, numTrendSetters, i) ==
  LET unflagged(node) == ~MapGet(this, node.name).isTrendSetter
      RECURSIVE pick(_, _, _)
      pick(m, q, k) ==
        IF k > numTrendSetters \/ k > Len(q) THEN m
        ELSE pick(MapSet(m, q[k].name, setIsTrendSetter(MapGet(m, q[k].name), TRUE)),
                  q, k + 1)
  IN pick(this, SelectSeq(queue, unflagged), i)

\* for (i < numTrendSetters) followersQueue.shift().setIsTrendSetter(true)
RECURSIVE flagFirst(_, _, _, _)
flagFirst(this, queue, numTrendSetters, i) ==
  IF i > numTrendSetters \/ i > Len(queue) THEN this
  ELSE flagFirst(MapSet(this, queue[i].name,
                        setIsTrendSetter(MapGet(this, queue[i].name), TRUE)),
                 queue, numTrendSetters, i + 1)

\* SCCList.forEach(scc => ...) of identifyTrendSetters, from position i on.
RECURSIVE rankEach(_, _, _)
rankEach(this, SCCList, i) ==
  IF i > Len(SCCList) THEN this
  ELSE LET scc       == SCCList[i]
           graphSize == Len(scc)
       IN rankEach(IF graphSize > 2
                   THEN flagFirst(this, buildNodeQueue(this, scc),
                                  calculatePercent(graphSize, 1), 1)
                   ELSE this,
                   SCCList, i + 1)

\* A ranker that clears every flag before it ranks.
identifyTrendSettersResetting(this) ==
  LET sccs    == getSCCs(this)
      cleared == [i \in 1..Len(this) |-> setIsTrendSetter(this[i], FALSE)]
  IN IF sccs.threw THEN [threw |-> TRUE, map |-> this]
     ELSE [threw |-> FALSE, map |-> rankEach(cleared, sccs.sccList, 1)]

identifyTrendSetters(this) ==
  LET sccs == getSCCs(this) IN
  IF sccs.threw THEN [threw |-> TRUE, map |-> this]
  ELSE [threw |-> FALSE, map |-> rankEach(this, sccs.sccList, 1)]

----------------------------------------------------------------------------
(* Propagation simulation.  The locals of a running startViralSharing or    *)
(* startViralSharingWithLimit call are a record with the fields             *)
(*   startingNodeID, maxDepth, withLimit : the call and its arguments,      *)
(*   toVisit       : the queue, of items [node] or, with a limit,           *)
(*                   [node, depth],                                         *)
(*   visited       : the Set<number>, in insertion order,                   *)
(*   alreadyViewed : the Set<number> of viewed IDs,                         *)
(*   n, currentGraphLength, previousGraphLength, subGraph.                  *)

\* maxGenerationNum, the second argument of shouldContinueGenerating.
MaxGenerationNum == 10

\* The visited-count safety valve of startViralSharingWithLimit.
SafetyValve == 100000

\* The default of startViralSharingWithLimit's maxDepth parameter.
DefaultMaxDepth == 3

\* The first loop of shareVideo from position i on: whether the count of
\* followers already viewed comes to exceed maxFollowerViews.
RECURSIVE followersExposedExceed(_, _, _, _, _)
followersExposedExceed(nodeFollowers, i, followersExposed, alreadyViewed, maxFollowerViews) ==
  IF i > Len(nodeFollowers) THEN FALSE
  ELSE IF nodeFollowers[i] \in alreadyViewed
       THEN IF followersExposed + 1 > maxFollowerViews THEN TRUE
            ELSE followersExposedExceed(nodeFollowers, i + 1, followersExposed + 1,
                                        alreadyViewed, maxFollowerViews)
       ELSE followersExposedExceed(nodeFollowers, i + 1, followersExposed,
                                   alreadyViewed, maxFollowerViews)

\* A gate that never stops the sharing.
gateNeverCloses(node, alreadyViewed) == FALSE

\* Whether a trend setter's saturation gate stops the sharing.
gateCloses(node, alreadyViewed) ==
  /\ node.isTrendSetter
  /\ followersExposedExceed(node.followers, 1, 0, alreadyViewed,
                            calculatePercent(Len(node.followers), 2))

\* A sharing step that marks the followers viewed but queues none of them.
enqueueNoFollowers(nodeFollowers, i, toVisit, alreadyViewed) ==
  [toVisit |-> toVisit, alreadyViewed |-> alreadyViewed \cup Range(nodeFollowers)]

\* nodeFollowers.forEach of shareVideo, from position i on.
RECURSIVE enqueueFollowers(_, _, _, _)
enqueueFollowers(nodeFollowers, i, toVisit, alreadyViewed) ==
  IF i > Len(nodeFollowers) THEN [toVisit |-> toVisit, alreadyViewed |-> alreadyViewed]
  ELSE LET followerID == nodeFollowers[i] IN
       enqueueFollowers(nodeFollowers, i + 1,
                        IF includes(toVisit, [node |-> followerID]) THEN toVisit
                        ELSE Append(toVisit, [node |-> followerID]),
                        alreadyViewed \cup {followerID})

shareVideo(this, nodeID, toVisit, alreadyViewed) ==
  IF getVertexThrows(this, nodeID)
  THEN [threw |-> TRUE, toVisit |-> toVisit, alreadyViewed |-> alreadyViewed]
  ELSE LET node   == MapGet(this, nodeID)
           viewed == alreadyViewed \cup {nodeID}
       IN IF gateCloses(node, viewed)
          THEN [threw |-> FALSE, toVisit |-> toVisit, alreadyViewed |-> viewed]
          ELSE LET r == enqueueFollowers(node.followers, 1, toVisit, viewed) IN
               [threw |-> FALSE, toVisit |-> r.toVisit, alreadyViewed |-> r.alreadyViewed]

\* toVisit.some(item => item.node === followerID)
someNode(toVisit, followerID) == \E i \in 1..Len(toVisit) : toVisit[i].node = followerID

\* A sharing step that queues a follower even if the queue holds it already.
RECURSIVE enqueueFollowersWithDepthAgain(_, _, _, _, _)
enqueueFollowersWithDepthAgain(nodeFollowers, i, toVisit, alreadyViewed, currentDepth) ==
  IF i > Len(nodeFollowers) THEN [toVisit |-> toVisit, alreadyViewed |-> alreadyViewed]
  ELSE enqueueFollowersWithDepthAgain(nodeFollowers, i + 1,
                                      Append(toVisit, [node  |-> nodeFollowers[i],
                                                       depth |-> currentDepth + 1]),
                                      alreadyViewed \cup {nodeFollowers[i]}, currentDepth)

\* nodeFollowers.forEach of shareVideoWithDepth, from position i on.
RECURSIVE enqueueFollowersWithDepth(_, _, _, _, _)
enqueueFollowersWithDepth(nodeFollowers, i, toVisit, alreadyViewed, currentDepth) ==
  IF i > Len(nodeFollowers) THEN [toVisit |-> toVisit, alreadyViewed |-> alreadyViewed]
  ELSE LET followerID == nodeFollowers[i] IN
       enqueueFollowersWithDepth(nodeFollowers, i + 1,
                                 IF someNode(toVisit, followerID) THEN toVisit
                                 ELSE Append(toVisit, [node  |-> followerID,
                                                       depth |-> currentDepth + 1]),
                                 alreadyViewed \cup {followerID}, currentDepth)

shareVideoWithDepth(this, nodeID, toVisit, alreadyViewed, currentDepth) ==
  IF getVertexThrows(this, nodeID)
  THEN [threw |-> TRUE, toVisit |-> toVisit, alreadyViewed |-> alreadyViewed]
  ELSE LET node   == MapGet(this, nodeID)
           viewed == alreadyViewed \cup {nodeID}
       IN IF gateCloses(node, viewed)
          THEN [threw |-> FALSE, toVisit |-> toVisit, alreadyViewed |-> viewed]
          ELSE LET r == enqueueFollowersWithDepth(node.followers, 1, toVisit, viewed,
                                                  currentDepth)
               IN [threw |-> FALSE, toVisit |-> r.toVisit, alreadyViewed |-> r.alreadyViewed]

\* addVertices(subGraph, nodes): nodes.forEach from position i on; acc is
\* [threw, subGraph].
RECURSIVE addVertices(_, _, _, _)
addVertices(this, acc, nodes, i) ==
  IF acc.threw \/ i > Len(nodes) THEN acc
  ELSE LET nodeID == nodes[i] IN
       addVertices(this,
                   IF MapHas(acc.subGraph, nodeID) THEN acc
                   ELSE IF getVertexThrows(this, nodeID)
                        THEN [threw |-> TRUE, subGraph |-> addVertex(acc.subGraph, nodeID)]
                        ELSE [threw    |-> FALSE,
                              subGraph |-> MapSet(acc.subGraph, nodeID,
                                             [CapNode(nodeID) EXCEPT !.neighbors =
                                                MapGet(this, nodeID).neighbors])],
                   nodes, i + 1)

\* A bug that emits after every dequeue, whether or not the size changed.
shouldContinueGeneratingAlways(generationNum, maxGenerationNum, previousLength, currentLength) ==
  generationNum <= maxGenerationNum

\* A bug that forgets the cap on the number of generations.
shouldContinueGeneratingUncapped(generationNum, maxGenerationNum, previousLength, currentLength) ==
  previousLength # currentLength

shouldContinueGenerating(generationNum, maxGenerationNum, previousLength, currentLength) ==
  generationNum <= maxGenerationNum /\ previousLength # currentLength

\* A bug that marks the start node's followers visited before the loop.
startLocalsFollowersVisited(this, startingNodeID, withLimit, maxDepth) ==
  LET followers == MapGet(this, startingNodeID).followers IN
  [startingNodeID      |-> startingNodeID,
   withLimit           |-> withLimit,
   maxDepth            |-> maxDepth,
   toVisit             |-> IF withLimit
                           THEN <<[node |-> startingNodeID, depth |-> 0]>>
                           ELSE <<[node |-> startingNodeID]>>,
   visited             |-> followers,
   alreadyViewed       |-> {startingNodeID},
   n                   |-> 1,
   currentGraphLength  |-> 0,
   previousGraphLength |-> 0,
   subGraph            |-> EmptyGraph]

\* The locals of startViralSharing / startViralSharingWithLimit when the
\* while loop is first reached (the start node is a vertex).
startLocals(this, startingNodeID, withLimit, maxDepth) ==
  LET followers == MapGet(this, startingNodeID).followers IN
  [startingNodeID      |-> startingNodeID,
   withLimit           |-> withLimit,
   maxDepth            |-> maxDepth,
   toVisit             |-> IF withLimit
                           THEN <<[node |-> startingNodeID, depth |-> 0]>>
                                \o [i \in 1..Len(followers) |->
                                      [node |-> followers[i], depth |-> 1]]
                           ELSE <<[node |-> startingNodeID]>>
                                \o [i \in 1..Len(followers) |-> [node |-> followers[i]]],
   visited             |-> <<>>,
   alreadyViewed       |-> {startingNodeID},
   n                   |-> 1,
   currentGraphLength  |-> 0,
   previousGraphLength |-> 0,
   subGraph            |-> EmptyGraph]

\* The end of a loop iteration, common to both variants: addVertices, the
\* size of the subgraph and the generation accounting.  Yields whether
\* getVertex threw, the locals, what was emitted (<<>> or one snapshot) and
\* whether the safety valve broke the loop.
accountGeneration(this, l, toVisit, visited, alreadyViewed) ==
  LET added   == addVertices(this, [threw |-> FALSE, subGraph |-> l.subGraph], visited, 1)
      current == Len(added.subGraph)
      emit    == shouldContinueGenerating(l.n, MaxGenerationNum,
                                          l.previousGraphLength, current)
  IN [threw   |-> added.threw,
      locals  |-> [l EXCEPT !.toVisit = toVisit,
                            !.visited = visited,
                            !.alreadyViewed = alreadyViewed,
                            !.subGraph = added.subGraph,
                            !.currentGraphLength = current,
                            !.previousGraphLength = IF emit THEN current ELSE @,
                            !.n = IF emit THEN @ + 1 ELSE @],
      emitted |-> IF ~emit THEN <<>>
                  ELSE IF l.withLimit THEN <<[n |-> l.n, size |-> current]>>
                  ELSE <<[n |-> l.n, ids |-> getVertexIDs(added.subGraph)]>>,
      broke   |-> l.withLimit /\ Len(visited) > SafetyValve]

\* A bug that shares the video on every dequeue, visited or not.
viralIterationRevisiting(this, l) ==
  LET nodeID == Head(l.toVisit).node
      shared == shareVideo(this, nodeID, Tail(l.toVisit), l.alreadyViewed)
  IN IF shared.threw
     THEN [threw |-> TRUE, locals |-> l, emitted |-> <<>>, broke |-> FALSE]
     ELSE accountGeneration(this, l, shared.toVisit,
                            IF includes(l.visited, nodeID) THEN l.visited
                            ELSE Append(l.visited, nodeID),
                            shared.alreadyViewed)

\* One iteration of the while loop of startViralSharing.
viralIteration(this, l) ==
  LET nodeID == Head(l.toVisit).node
      rest   == Tail(l.toVisit)
      fresh  == ~includes(l.visited, nodeID)
      shared == IF fresh THEN shareVideo(this, nodeID, rest, l.alreadyViewed)
                ELSE [threw |-> FALSE, toVisit |-> rest, alreadyViewed |-> l.alreadyViewed]
  IN IF shared.threw
     THEN [threw |-> TRUE, locals |-> l, emitted |-> <<>>, broke |-> FALSE]
     ELSE accountGeneration(this, l, shared.toVisit,
                            IF fresh THEN Append(l.visited, nodeID) ELSE l.visited,
                            shared.alreadyViewed)

\* A loop that never discards an item for its depth.
viralIterationWithLimitIgnored(this, l) ==
  LET next   == Head(l.toVisit)
      rest   == Tail(l.toVisit)
      fresh  == ~includes(l.visited, next.node)
      shared == IF fresh
                THEN shareVideoWithDepth(this, next.node, rest, l.alreadyViewed, next.depth)
                ELSE [threw |-> FALSE, toVisit |-> rest, alreadyViewed |-> l.alreadyViewed]
  IN IF shared.threw
     THEN [threw |-> TRUE, locals |-> l, emitted |-> <<>>, broke |-> FALSE]
     ELSE accountGeneration(this, l, shared.toVisit,
                            IF fresh THEN Append(l.visited, next.node) ELSE l.visited,
                            shared.alreadyViewed)

\* One iteration of the while loop of startViralSharingWithLimit.
viralIterationWithLimit(this, l) ==
  LET next   == Head(l.toVisit)
      rest   == Tail(l.toVisit)
      fresh  == ~includes(l.visited, next.node)
      shared == IF fresh
                THEN shareVideoWithDepth(this, next.node, rest, l.alreadyViewed, next.depth)
                ELSE [threw |-> FALSE, toVisit |-> rest, alreadyViewed |-> l.alreadyViewed]
  IN IF next.depth > l.maxDepth
     THEN [threw |-> FALSE, locals |-> [l EXCEPT !.toVisit = rest],
           emitted |-> <<>>, broke |-> FALSE]
     ELSE IF shared.threw
     THEN [threw |-> TRUE, locals |-> l, emitted |-> <<>>, broke |-> FALSE]
     ELSE accountGeneration(this, l, shared.toVisit,
                            IF fresh THEN Append(l.visited, next.node) ELSE l.visited,
                            shared.alreadyViewed)

\* A whole run of either while loop from the locals l: the locals at the end
\* (or where getVertex threw or the safety valve broke the loop), the nodes
\* dequeued and the sizes emitted, in order.
RECURSIVE runLoop(_, _, _, _)
runLoop(this, l, dequeued, sizes) ==
  IF l.toVisit = <<>>
  THEN [threw |-> FALSE, locals |-> l, dequeued |-> dequeued, sizes |-> sizes]
  ELSE LET r    == IF l.withLimit THEN viralIterationWithLimit(this, l)
                   ELSE viralIteration(this, l)
           deq  == Append(dequeued, Head(l.toVisit).node)
           size == IF r.emitted = <<>> THEN sizes
                   ELSE Append(sizes, r.locals.currentGraphLength)
       IN IF r.threw \/ r.broke
          THEN [threw |-> r.threw, locals |-> r.locals, dequeued |-> deq, sizes |-> size]
          ELSE runLoop(this, r.locals, deq, size)

----------------------------------------------------------------------------
(* The state machine: one CapGraph and the calls made on it. *)

VARIABLES
  listMap,    \* CapGraph.listMap
  vertices,   \* CapGraph.vertices: <<>> for null, <<ids>> once getSCCs has set it
  call,       \* the last call: operation, arguments, whether it threw or logged
  before,     \* listMap as it was when the last call began
  ret,        \* what the last call returned (<<>> if nothing)
  pc,         \* the simulation call: "idle", "running", "returned" or "threw"
  locals,     \* the locals of the simulation call (<<>> before there is one)
  output      \* the generations the simulation call has emitted, in order

vars == <<listMap, vertices, call, before, ret, pc, locals, output>>

\* A simulation call is synchronous: no other operation runs while it does,
\* and its locals and its output are of no account once another call begins.
NoCallRunning == pc # "running"

ForgetSimulation ==
  /\ pc' = "idle"
  /\ locals' = <<>>
  /\ output' = <<>>

Call(op, from, to, threw, logged) ==
  [op |-> op, from |-> from, to |-> to, threw |-> threw, logged |-> logged]

TotalNeighbors(m) == LET RECURSIVE sum(_)
                         sum(i) == IF i = 0 THEN 0 ELSE Len(m[i].neighbors) + sum(i - 1)
                     IN sum(Len(m))

TotalFollowers(m) == LET RECURSIVE sum(_)
                         sum(i) == IF i = 0 THEN 0 ELSE Len(m[i].followers) + sum(i - 1)
                     IN sum(Len(m))

\* Nothing in the code depends on an ID's numeric value (IDs are only compared
\* for equality), so new vertices are numbered in order of creation: addVertex
\* is offered every existing ID (an overwrite) and the smallest unused one.
NextID == IF Len(listMap) < NumIDs THEN Len(listMap) + 1 ELSE NumIDs

Init ==
  /\ listMap = EmptyGraph
  /\ vertices = <<>>
  /\ call = Call("new", 0, 0, FALSE, FALSE)
  /\ before = EmptyGraph
  /\ ret = <<>>
  /\ pc = "idle"
  /\ locals = <<>>
  /\ output = <<>>

AddVertex(num) ==
  /\ NoCallRunning
  /\ listMap' = addVertex(listMap, num)
  /\ call' = Call("addVertex", num, 0, FALSE, FALSE)
  /\ before' = listMap
  /\ ret' = <<>>
  /\ UNCHANGED vertices
  /\ ForgetSimulation

AddEdge(from, to) ==
  /\ NoCallRunning
  /\ TotalNeighbors(listMap) < MaxEdges
  /\ TotalFollowers(listMap) < MaxEdges
  /\ LET r == addEdge(listMap, from, to) IN
     /\ listMap' = r.map
     /\ call' = Call("addEdge", from, to, r.threw, FALSE)
  /\ before' = listMap
  /\ ret' = <<>>
  /\ UNCHANGED vertices
  /\ ForgetSimulation

RemoveEdge(from, to) ==
  /\ NoCallRunning
  /\ LET r == removeEdge(listMap, from, to) IN
     /\ listMap' = r.map
     /\ call' = Call("removeEdge", from, to, r.threw, r.logged)
  /\ before' = listMap
  /\ ret' = <<>>
  /\ UNCHANGED vertices
  /\ ForgetSimulation

GetEgonet(center) ==
  /\ NoCallRunning
  /\ LET r == getEgonet(listMap, center) IN
     /\ call' = Call("getEgonet", center, 0, r.threw, FALSE)
     /\ ret' = r.graph
  /\ before' = listMap
  /\ UNCHANGED <<listMap, vertices>>
  /\ ForgetSimulation

\* A bug that transposes the graph in place instead of into a new graph.
GetSCCsTransposingInPlace ==
  /\ NoCallRunning
  /\ LET r == getSCCs(listMap) IN
     /\ call' = Call("getSCCs", 0, 0, r.threw, FALSE)
     /\ ret' = r.sccList
  /\ vertices' = <<getVertexIDs(listMap)>>
  /\ before' = listMap
  /\ listMap' = IF getSCCs(listMap).threw THEN listMap ELSE transpose(listMap)
  /\ ForgetSimulation

GetSCCs ==
  /\ NoCallRunning
  /\ LET r == getSCCs(listMap) IN
     /\ call' = Call("getSCCs", 0, 0, r.threw, FALSE)
     /\ ret' = r.sccList
  /\ vertices' = <<getVertexIDs(listMap)>>
  /\ before' = listMap
  /\ UNCHANGED listMap
  /\ ForgetSimulation

IdentifyTrendSetters ==
  /\ NoCallRunning
  /\ LET r == identifyTrendSetters(listMap) IN
     /\ listMap' = r.map
     /\ call' = Call("identifyTrendSetters", 0, 0, r.threw, FALSE)
  /\ vertices' = <<getVertexIDs(listMap)>>
  /\ before' = listMap
  /\ ret' = <<>>
  /\ ForgetSimulation

ExportGraph ==
  /\ NoCallRunning
  /\ call' = Call("exportGraph", 0, 0, FALSE, FALSE)
  /\ ret' = exportGraph(listMap)
  /\ before' = listMap
  /\ UNCHANGED <<listMap, vertices>>
  /\ ForgetSimulation

Next ==
  \/ \E num \in 1..NextID : AddVertex(num)
  \/ \E from \in IDs, to \in IDs : AddEdge(from, to)
  \/ \E from \in IDs, to \in IDs : RemoveEdge(from, to)
  \/ \E center \in IDs : GetEgonet(center)
  \/ GetSCCs
  \/ IdentifyTrendSetters
  \/ ExportGraph

Spec == Init /\ [][Next]_vars

----------------------------------------------------------------------------
(* The analysis path: the graph is built as a loader builds it, each vertex *)
(* added once and every addEdge between existing vertices, and the          *)
(* analyses are run on it.  No call throws here.  getSCCs and               *)
(* identifyTrendSetters read only the key order, the neighbors lists and    *)
(* the flags, and they return only if every neighbors entry is a key; every *)
(* such graph can be built this way, so this path offers them every graph   *)
(* on which they return, up to the bounds and the numbering of the IDs.     *)
(* getEgonet reads the neighbors lists of the center and of its neighbors.  *)

BuildVertex ==
  /\ Len(listMap) < BuildIDs
  /\ AddVertex(Len(listMap) + 1)

BuildEdge(from, to) ==
  /\ NoCallRunning
  /\ MapHas(listMap, from)
  /\ MapHas(listMap, to)
  /\ TotalNeighbors(listMap) < BuildEdges
  /\ LET r == addEdge(listMap, from, to) IN
     /\ listMap' = r.map
     /\ call' = Call("addEdge", from, to, r.threw, FALSE)
  /\ before' = listMap
  /\ ret' = <<>>
  /\ UNCHANGED vertices
  /\ ForgetSimulation

NextBuild ==
  \/ BuildVertex
  \/ \E from \in 1..BuildIDs, to \in 1..BuildIDs : BuildEdge(from, to)
  \/ \E center \in 1..BuildIDs : MapHas(listMap, center) /\ GetEgonet(center)
  \/ GetSCCs
  \/ IdentifyTrendSetters

SpecBuild == Init /\ [][NextBuild]_vars

----------------------------------------------------------------------------
(* The simulation path: a graph is built as on the analysis path, the       *)
(* trend setters may be ranked, and one simulation call is run on it, one   *)
(* iteration of its while loop at a time.  The simulation reads the         *)
(* followers lists, the neighbors lists and the flags.  Graphs of up to     *)
(* CoreIDs vertices are arbitrary; a larger graph is a chain in which       *)
(* vertex i + 1 follows vertex i, so that a simulation started at vertex 1  *)
(* reaches more than MaxGenerationNum vertices.                             *)

\* Vertex i + 1 follows vertex i and nothing else is followed.
IsChain(m) ==
  \A i \in 1..Len(m) : m[i].neighbors = IF i = 1 THEN <<>> ELSE <<i - 1>>

SimVertex ==
  /\ Len(listMap) < LongIDs
  /\ Len(listMap) < CoreIDs \/ IsChain(listMap)
  /\ AddVertex(Len(listMap) + 1)

SimEdge(from, to) ==
  /\ NoCallRunning
  /\ MapHas(listMap, from)
  /\ MapHas(listMap, to)
  /\ IF Len(listMap) <= CoreIDs
     THEN TotalNeighbors(listMap) < CoreEdges
     ELSE from = Len(listMap) /\ to = from - 1 /\ MapGet(listMap, from).neighbors = <<>>
  /\ LET r == addEdge(listMap, from, to) IN
     /\ listMap' = r.map
     /\ call' = Call("addEdge", from, to, r.threw, FALSE)
  /\ before' = listMap
  /\ ret' = <<>>
  /\ UNCHANGED vertices
  /\ ForgetSimulation

DepthArgs == (0..MaxDepthArg) \cup {DefaultMaxDepth, LongIDs}

\* startViralSharing up to its while loop.
StartViralSharing(startingNodeID) ==
  /\ NoCallRunning
  /\ call' = Call("startViralSharing", startingNodeID, 0,
                  getVertexThrows(listMap, startingNodeID), FALSE)
  /\ IF getVertexThrows(listMap, startingNodeID)
     THEN pc' = "threw" /\ locals' = <<>>
     ELSE /\ pc' = "running"
          /\ locals' = startLocals(listMap, startingNodeID, FALSE, 0)
  /\ output' = <<>>
  /\ before' = listMap
  /\ ret' = <<>>
  /\ UNCHANGED <<listMap, vertices>>

\* startViralSharingWithLimit up to its while loop.
StartViralSharingWithLimit(startingNodeID, maxDepth) ==
  /\ NoCallRunning
  /\ call' = Call("startViralSharingWithLimit", startingNodeID, maxDepth,
                  getVertexThrows(listMap, startingNodeID), FALSE)
  /\ IF getVertexThrows(listMap, startingNodeID)
     THEN pc' = "threw" /\ locals' = <<>>
     ELSE /\ pc' = "running"
          /\ locals' = startLocals(listMap, startingNodeID, TRUE, maxDepth)
  /\ output' = <<>>
  /\ before' = listMap
  /\ ret' = <<>>
  /\ UNCHANGED <<listMap, vertices>>

\* What one iteration r of either while loop does to the state.
Iterate(r) ==
  /\ pc' = IF r.threw THEN "threw" ELSE IF r.broke THEN "returned" ELSE "running"
  /\ locals' = r.locals
  /\ output' = output \o r.emitted
  /\ call' = [call EXCEPT !.threw = r.threw]
  /\ UNCHANGED <<listMap, vertices, before, ret>>

\* One iteration of the while loop of startViralSharing.
ViralSharingLoop ==
  /\ pc = "running"
  /\ ~locals.withLimit
  /\ locals.toVisit # <<>>
  /\ Iterate(viralIteration(listMap, locals))

\* One iteration of the while loop of startViralSharingWithLimit.
ViralSharingWithLimitLoop ==
  /\ pc = "running"
  /\ locals.withLimit
  /\ locals.toVisit # <<>>
  /\ Iterate(viralIterationWithLimit(listMap, locals))

\* The while loop ends on an empty queue and the call returns.
ViralSharingReturn ==
  /\ pc = "running"
  /\ locals.toVisit = <<>>
  /\ pc' = "returned"
  /\ UNCHANGED <<listMap, vertices, call, before, ret, locals, output>>

\* The ranking is run on the graphs of up to CoreIDs vertices.
SimRank ==
  /\ Len(listMap) <= CoreIDs
  /\ IdentifyTrendSetters

NextSim ==
  \/ SimVertex
  \/ \E from \in 1..LongIDs, to \in 1..LongIDs : SimEdge(from, to)
  \/ SimRank
  \/ \E startingNodeID \in 1..(CoreIDs + 1) : StartViralSharing(startingNodeID)
  \/ \E startingNodeID \in 1..(CoreIDs + 1), maxDepth \in DepthArgs :
        StartViralSharingWithLimit(startingNodeID, maxDepth)
  \/ ViralSharingLoop
  \/ ViralSharingWithLimitLoop
  \/ ViralSharingReturn

SpecSim == Init /\ [][NextSim]_vars

----------------------------------------------------------------------------
(* The simulation on the graphs of the analysis path: up to BuildIDs        *)
(* vertices and BuildEdges edges, enough for a ranked trend setter to have  *)
(* two viewed followers when it is processed.                               *)

NextGate ==
  \/ BuildVertex
  \/ \E from \in 1..BuildIDs, to \in 1..BuildIDs : BuildEdge(from, to)
  \/ IdentifyTrendSetters
  \/ \E startingNodeID \in 1..BuildIDs : StartViralSharing(startingNodeID)
  \/ \E startingNodeID \in 1..BuildIDs :
        StartViralSharingWithLimit(startingNodeID, DefaultMaxDepth)
  \/ ViralSharingLoop
  \/ ViralSharingWithLimitLoop
  \/ ViralSharingReturn

SpecGate == Init /\ [][NextGate]_vars

----------------------------------------------------------------------------
(* Every operation in any order on up to OpsIDs vertices: vertices are      *)
(* overwritten, edges are added (also to and from unknown vertices) and     *)
(* removed, the graph is ranked and queried, and simulations are run.       *)

OpsVertex(num) ==
  /\ num <= Len(listMap) + 1
  /\ AddVertex(num)

OpsEdge(from, to) ==
  /\ TotalNeighbors(listMap) < OpsEdges
  /\ TotalFollowers(listMap) < OpsEdges
  /\ AddEdge(from, to)

NextOps ==
  \/ \E num \in 1..OpsIDs : OpsVertex(num)
  \/ \E from \in 1..OpsIDs, to \in 1..OpsIDs : OpsEdge(from, to)
  \/ \E from \in 1..OpsIDs, to \in 1..OpsIDs : RemoveEdge(from, to)
  \/ \E center \in 1..OpsIDs : GetEgonet(center)
  \/ GetSCCs
  \/ IdentifyTrendSetters
  \/ \E startingNodeID \in 1..OpsIDs : StartViralSharing(startingNodeID)
  \/ \E startingNodeID \in 1..OpsIDs :
        StartViralSharingWithLimit(startingNodeID, DefaultMaxDepth)
  \/ ViralSharingLoop
  \/ ViralSharingWithLimitLoop
  \/ ViralSharingReturn

SpecOps == Init /\ [][NextOps]_vars

----------------------------------------------------------------------------
(* Every operation that changes the graph, and startViralSharing, on the    *)
(* graphs of up to NumIDs vertices and MaxEdges edges: the graphs a caller  *)
(* can reach, dangling following entries, overwritten vertices and removed  *)
(* edges included.                                                          *)

NextRun ==
  \/ \E num \in 1..NextID : AddVertex(num)
  \/ \E from \in IDs, to \in IDs : AddEdge(from, to)
  \/ \E from \in IDs, to \in IDs : RemoveEdge(from, to)
  \/ IdentifyTrendSetters
  \/ \E startingNodeID \in IDs : StartViralSharing(startingNodeID)
  \/ ViralSharingLoop
  \/ ViralSharingReturn

\* A running call is synchronous single-threaded code: its loop keeps
\* executing until it throws or returns.
SpecRun ==
  /\ Init
  /\ [][NextRun]_vars
  /\ WF_vars(ViralSharingLoop)
  /\ WF_vars(ViralSharingReturn)

----------------------------------------------------------------------------
(* Vocabulary of the properties. *)

\* The IDs v for which a directed path of following-edges leads from some
\* member of S to v in graph m (S itself included).
RECURSIVE ReachableFrom(_, _)
ReachableFrom(m, S) ==
  LET T == S \cup {v \in KeySet(m) :
                   \E u \in S : MapHas(m, u) /\ includes(MapGet(m, u).neighbors, v)}
  IN IF T = S THEN S ELSE ReachableFrom(m, T)

Reaches(m, u, v) == v \in ReachableFrom(m, {u})

MutuallyReachable(m, u, v) == Reaches(m, u, v) /\ Reaches(m, v, u)

Flagged(m) == {v \in KeySet(m) : MapGet(m, v).isTrendSetter}

\* ceil(m / 10): the least k with 10 k >= m.
CeilTenth(m) == CHOOSE k \in 0..m : 10 * k >= m /\ \A j \in 0..(k - 1) : 10 * j < m

Returned(op) == call.op = op /\ ~call.threw

----------------------------------------------------------------------------
(* Properties of the SCC decomposition, the ranking and the egonet. *)

\* C1: on a graph built by addVertex and successful addEdge calls getSCCs
\* returns, and the vertex sets of the returned component graphs partition
\* the vertex set: their union is the whole set and no ID is in two of them.
C1_SCCsPartitionVertices ==
  call.op = "getSCCs" =>
    /\ ~call.threw
    /\ UNION {KeySet(ret[i]) : i \in 1..Len(ret)} = KeySet(before)
    /\ \A i, j \in 1..Len(ret) : i # j => KeySet(ret[i]) \cap KeySet(ret[j]) = {}
    /\ \A i \in 1..Len(ret) : Cardinality(KeySet(ret[i])) = Len(ret[i])

\* C1 witness: getSCCs returned several components, one of several vertices.
C1_Witness ==
  /\ Returned("getSCCs")
  /\ Len(ret) >= 2
  /\ \E i \in 1..Len(ret) : Len(ret[i]) >= 2

\* C2: any two vertices of one returned component reach each other along
\* following-edges of the graph getSCCs was called on.
C2_ComponentsMutuallyReachable ==
  Returned("getSCCs") =>
    \A i \in 1..Len(ret) : \A u, v \in KeySet(ret[i]) : MutuallyReachable(before, u, v)

\* C3: getSCCs never splits a strongly connected set: two mutually reachable
\* vertices are in the same returned component, and a graph in which every
\* vertex reaches every other yields exactly one component.
C3_SCCsNeverSplit ==
  Returned("getSCCs") =>
    /\ \A u, v \in KeySet(before) :
         MutuallyReachable(before, u, v) =>
           \E i \in 1..Len(ret) : {u, v} \subseteq KeySet(ret[i])
    /\ (/\ KeySet(before) # {}
        /\ \A u, v \in KeySet(before) : Reaches(before, u, v))
         => Len(ret) = 1 /\ KeySet(ret[1]) = KeySet(before)

\* C3 witness: getSCCs returned on a graph of at least three vertices, every
\* one of which reaches every other.
C3_Witness ==
  /\ Returned("getSCCs")
  /\ Cardinality(KeySet(before)) >= 3
  /\ \A u, v \in KeySet(before) : Reaches(before, u, v)
  /\ Len(ret) = 1

\* C4: after identifyTrendSetters on a graph without flags, every component
\* getSCCs returns with m > 2 members has exactly ceil(0.1 m) flagged
\* members and a component with m <= 2 members has none.
C4_TrendSettersPerComponent ==
  (Returned("identifyTrendSetters") /\ Flagged(before) = {}) =>
    LET sccs == getSCCs(listMap).sccList IN
    \A i \in 1..Len(sccs) :
      LET m == Cardinality(KeySet(sccs[i]))
          n == Cardinality(KeySet(sccs[i]) \cap Flagged(listMap))
      IN IF m > 2 THEN n = CeilTenth(m) ELSE n = 0

\* C4 witness: identifyTrendSetters ran on an unflagged graph that has a
\* component of more than two members, and flagged a vertex.
C4_Witness ==
  /\ Returned("identifyTrendSetters")
  /\ Flagged(before) = {}
  /\ Flagged(listMap) # {}
  /\ \E i \in 1..Len(getSCCs(listMap).sccList) : Len(getSCCs(listMap).sccList[i]) > 2

\* C5: the egonet getEgonet(c) returns has vertex set {c} \cup following(c),
\* and each member keeps exactly those of its following entries that are
\* members: a member ID occurs as often as in the graph, any other ID never.
C5_EgonetIsInduced ==
  Returned("getEgonet") =>
    LET c       == call.from
        members == {c} \cup Range(MapGet(before, c).neighbors)
    IN /\ KeySet(ret) = members
       /\ \A i \in 1..Len(ret) :
            /\ Range(ret[i].neighbors) \subseteq members
            /\ \A x \in members :
                 Count(ret[i].neighbors, x) =
                   Count(MapGet(before, ret[i].name).neighbors, x)

\* C5 witness: getEgonet returned an egonet in which a member other than the
\* center lost an edge to a vertex outside the egonet and kept one inside.
C5_Witness ==
  /\ Returned("getEgonet")
  /\ \E i \in 1..Len(ret) :
       /\ ret[i].name # call.from
       /\ ret[i].neighbors # <<>>
       /\ Range(MapGet(before, ret[i].name).neighbors) \ KeySet(ret) # {}

----------------------------------------------------------------------------
(* Properties of edge mutation. *)

\* The last call was op(from, to) with from and to any IDs.
EdgeCall(op) == call.op = op

FromKnown == MapHas(before, call.from)

ToKnown == MapHas(before, call.to)

\* Everything but the two named lists is as it was before the call: the same
\* keys in the same order, the same flags, and for every vertex the neighbors
\* (followers) list unless it is vertex changedNeighbors (changedFollowers).
\* 0 names no vertex.
SameExcept(changedNeighbors, changedFollowers) ==
  /\ Len(listMap) = Len(before)
  /\ \A i \in 1..Len(before) :
       /\ listMap[i].name = before[i].name
       /\ listMap[i].isTrendSetter = before[i].isTrendSetter
       /\ before[i].name # changedNeighbors => listMap[i].neighbors = before[i].neighbors
       /\ before[i].name # changedFollowers => listMap[i].followers = before[i].followers

\* u is s with x put after its last element.
IsAppended(u, s, x) ==
  /\ Len(u) = Len(s) + 1
  /\ u[Len(u)] = x
  /\ \A i \in 1..Len(s) : u[i] = s[i]

\* u is s without the element at the first position that holds x.
IsWithoutFirst(u, s, x) ==
  \E p \in 1..Len(s) :
    /\ s[p] = x
    /\ \A j \in 1..(p - 1) : s[j] # x
    /\ Len(u) = Len(s) - 1
    /\ \A j \in 1..Len(u) : u[j] = IF j < p THEN s[j] ELSE s[j + 1]

\* C6: addEdge(from, to) with both IDs present returns, having appended one
\* entry to at the end of from.following and one entry from at the end of
\* to.followers, also when the entry was there already, and having changed
\* no other list, vertex or flag.
C6_AddEdgeAppends ==
  (EdgeCall("addEdge") /\ FromKnown /\ ToKnown) =>
    /\ ~call.threw
    /\ SameExcept(call.from, call.to)
    /\ IsAppended(MapGet(listMap, call.from).neighbors,
                  MapGet(before, call.from).neighbors, call.to)
    /\ IsAppended(MapGet(listMap, call.to).followers,
                  MapGet(before, call.to).followers, call.from)

\* C6 witness: a second addEdge of a pair already present left two entries in
\* each of the two lists.
C6_Witness ==
  /\ Returned("addEdge")
  /\ call.from # call.to
  /\ Count(MapGet(before, call.from).neighbors, call.to) = 1
  /\ Count(MapGet(listMap, call.from).neighbors, call.to) = 2
  /\ Count(MapGet(listMap, call.to).followers, call.from) = 2

\* C7: addEdge(from, to) with from or to not a vertex throws and has no
\* effect: the graph is after the call as it was before it.
C7_FailedAddEdgeHasNoEffect ==
  (EdgeCall("addEdge") /\ ~(FromKnown /\ ToKnown)) =>
    /\ call.threw
    /\ listMap = before

\* C8: removeEdge(from, to) with to in from.following returns, having removed
\* the first occurrence of to from from.following and nothing else:
\* to.followers (so from's entries in it) and every other list are unchanged.
C8_RemoveEdgeRemovesFirstOccurrence ==
  (/\ EdgeCall("removeEdge")
   /\ FromKnown
   /\ includes(MapGet(before, call.from).neighbors, call.to)) =>
    /\ ~call.threw
    /\ SameExcept(call.from, 0)
    /\ IsWithoutFirst(MapGet(listMap, call.from).neighbors,
                      MapGet(before, call.from).neighbors, call.to)
    /\ MapHas(before, call.to) =>
         Count(MapGet(listMap, call.to).followers, call.from) =
           Count(MapGet(before, call.to).followers, call.from)

\* C8 witness: removeEdge removed the first of two occurrences of to, which
\* had another entry between them, and to.followers still contains from.
C8_Witness ==
  /\ Returned("removeEdge")
  /\ FromKnown
  /\ LET s == MapGet(before, call.from).neighbors IN
       /\ Len(s) = 3
       /\ s[1] = call.to /\ s[2] # call.to /\ s[3] = call.to
       /\ MapGet(listMap, call.from).neighbors = <<s[2], s[3]>>
  /\ MapHas(listMap, call.to)
  /\ includes(MapGet(listMap, call.to).followers, call.from)

\* C9: removeEdge(from, to) on an existing from whose following list does
\* not contain to logs the diagnostic, does not throw and removes nothing.
C9_RemoveAbsentEdgeRemovesNothing ==
  (/\ EdgeCall("removeEdge")
   /\ FromKnown
   /\ ~includes(MapGet(before, call.from).neighbors, call.to)) =>
    /\ ~call.threw
    /\ call.logged
    /\ listMap = before

\* C10 as stated: removeEdge(from, to) throws whenever from or to is not a
\* vertex of the graph.
C10_RemoveEdgeFailsOnUnknownVertex ==
  (EdgeCall("removeEdge") /\ ~(FromKnown /\ ToKnown)) => call.threw

\* C10 amended: removeEdge(from, to) throws exactly when from is not a vertex
\* of the graph, and then changes nothing; whether to is a vertex is never
\* looked at.
C10_RemoveEdgeFailsOnUnknownFrom ==
  EdgeCall("removeEdge") =>
    /\ call.threw <=> ~FromKnown
    /\ call.threw => listMap = before

\* C10 witness: removeEdge returned for an existing from and a to that is not
\* a vertex.
C10_Witness ==
  /\ Returned("removeEdge")
  /\ FromKnown
  /\ ~ToKnown

----------------------------------------------------------------------------
(* Properties of addVertex and exportGraph. *)

\* C11: addVertex(id) never throws; afterwards vertex id has empty following
\* and followers lists and no flag, also when id existed before, and every
\* other vertex is as it was, entries that reference id included.
C11_AddVertexInsertsFreshVertex ==
  call.op = "addVertex" =>
    /\ ~call.threw
    /\ KeySet(listMap) = KeySet(before) \cup {call.from}
    /\ MapGet(listMap, call.from) = CapNode(call.from)
    /\ \A v \in KeySet(before) \ {call.from} : MapGet(listMap, v) = MapGet(before, v)

\* C11 witness: addVertex overwrote a vertex that had entries in its own lists
\* while another vertex keeps an entry that references it.
C11_Witness ==
  /\ Returned("addVertex")
  /\ MapHas(before, call.from)
  /\ MapGet(before, call.from).neighbors # <<>>
  /\ MapGet(before, call.from).followers # <<>>
  /\ \E v \in KeySet(listMap) \ {call.from} :
       includes(MapGet(listMap, v).neighbors, call.from)

\* C20: exportGraph returns one entry per vertex, and the entry of vertex v
\* holds exactly the distinct IDs that occur in v.following.
C20_ExportGraphIsAdjacency ==
  Returned("exportGraph") =>
    /\ {ret[i].num : i \in 1..Len(ret)} = KeySet(before)
    /\ Cardinality(KeySet(before)) = Len(ret)
    /\ \A i \in 1..Len(ret) :
         \A x \in IDs :
           x \in ret[i].neighbors <=> Count(MapGet(before, ret[i].num).neighbors, x) > 0

\* C20 witness: exportGraph ran after addEdge(a, b) twice and removeEdge(a, b)
\* once (a has one entry b left, b has two entries a) and b is in a's set.
C20_Witness ==
  /\ Returned("exportGraph")
  /\ \E a, b \in KeySet(before) :
       /\ a # b
       /\ Count(MapGet(before, a).neighbors, b) = 1
       /\ Count(MapGet(before, b).followers, a) = 2
       /\ \E i \in 1..Len(ret) : ret[i].num = a /\ b \in ret[i].neighbors

----------------------------------------------------------------------------
(* Further properties of the SCC decomposition and the ranking. *)

\* The components of a getSCCs result as the sequence of their vertex sets.
Partition(sccList) == [i \in 1..Len(sccList) |-> KeySet(sccList[i])]

\* The components a getSCCs call on the current graph returns that have more
\* than two members: the ones identifyTrendSetters ranks.
RankedComponents ==
  LET sccs == getSCCs(listMap).sccList IN
  {KeySet(sccs[i]) : i \in {j \in 1..Len(sccs) : Len(sccs[j]) > 2}}

OutDegree(v) == Len(MapGet(before, v).neighbors)

InDegree(v) == Len(MapGet(before, v).followers)

\* C13: after identifyTrendSetters on a graph without flags, no unflagged
\* member of a ranked component has more following entries (duplicates
\* counted) than a flagged member of that component.
C13_FlaggedHaveHighestOutDegree ==
  (Returned("identifyTrendSetters") /\ Flagged(before) = {}) =>
    \A comp \in RankedComponents :
      \A u \in comp \cap Flagged(listMap) :
        \A w \in comp \ Flagged(listMap) : OutDegree(w) <= OutDegree(u)

\* C13 witness: the ranking flagged a vertex that has more following entries
\* and fewer followers than an unflagged member of its component.
C13_Witness ==
  /\ Returned("identifyTrendSetters")
  /\ Flagged(before) = {}
  /\ \E comp \in RankedComponents :
       \E u \in comp \cap Flagged(listMap) :
         \E w \in comp \ Flagged(listMap) :
           OutDegree(u) > OutDegree(w) /\ InDegree(u) < InDegree(w)

\* C14: after identifyTrendSetters on a graph without flags, no unflagged
\* member of a ranked component has more followers entries than a flagged
\* member of that component.
C14_FlaggedHaveMostFollowers ==
  (Returned("identifyTrendSetters") /\ Flagged(before) = {}) =>
    \A comp \in RankedComponents :
      \A u \in comp \cap Flagged(listMap) :
        \A w \in comp \ Flagged(listMap) : InDegree(w) <= InDegree(u)

----------------------------------------------------------------------------
(* Properties of the propagation simulation. *)

\* A simulation call has reached its loop and has not thrown.
Started == pc \in {"running", "returned"}

\* The number of nodes in an emitted snapshot.
SnapshotSize(g) == IF locals.withLimit THEN g.size ELSE Len(g.ids)

\* C15: in a run of startViralSharing or startViralSharingWithLimit the sizes
\* of the successive emitted generations strictly increase, each is the size
\* the visited set had when it was emitted, and the visited set never falls
\* below the last emitted size.
C15_GenerationSizesIncrease ==
  Started =>
    /\ \A k \in 1..(Len(output) - 1) :
         SnapshotSize(output[k]) < SnapshotSize(output[k + 1])
    /\ locals.currentGraphLength = Len(locals.visited)
    /\ locals.previousGraphLength <= Len(locals.visited)
    /\ Len(output) > 0 =>
         SnapshotSize(output[Len(output)]) = locals.previousGraphLength

C15_Witness ==
  /\ pc = "returned"
  /\ locals.withLimit
  /\ Len(output) >= 3

\* C16: a simulation emits at most MaxGenerationNum snapshots, the k-th
\* emitted is numbered k, the counter n is always one more than the number
\* emitted so far, and a snapshot's size differs from its predecessor's.
C16_GenerationAccounting ==
  Started =>
    /\ Len(output) <= MaxGenerationNum
    /\ \A k \in 1..Len(output) : output[k].n = k
    /\ locals.n = Len(output) + 1
    /\ \A k \in 1..(Len(output) - 1) :
         SnapshotSize(output[k]) # SnapshotSize(output[k + 1])

C16_Witness ==
  /\ pc = "returned"
  /\ Len(output) = MaxGenerationNum
  /\ Len(locals.visited) > MaxGenerationNum

\* C17: generation 1 is exactly the start node, and generation k > 1 has
\* exactly k nodes: those of generation k - 1 and one new node.
C17_SnapshotsGrowByOne ==
  Started =>
    \A k \in 1..Len(output) :
      /\ SnapshotSize(output[k]) = k
      /\ ~locals.withLimit =>
           /\ Cardinality(Range(output[k].ids)) = k
           /\ k = 1 => output[k].ids = <<locals.startingNodeID>>
           /\ k > 1 =>
                /\ Range(output[k - 1].ids) \subseteq Range(output[k].ids)
                /\ Cardinality(Range(output[k].ids) \ Range(output[k - 1].ids)) = 1

C17_Witness ==
  /\ pc = "returned"
  /\ ~locals.withLimit
  /\ Len(output) >= 3

\* C18: a startViralSharing call whose start node is a vertex returns: it
\* does not throw and its queue empties.
C18_StartViralSharingReturns ==
  (pc = "running" /\ ~locals.withLimit) ~> (pc = "returned")

\* A call has returned in which the start node was queued again after it
\* had been visited: an untagged visited node counts it among its followers.
C18_Witness ==
  /\ pc = "returned"
  /\ ~locals.withLimit
  /\ ~includes(MapGet(listMap, locals.startingNodeID).followers, locals.startingNodeID)
  /\ \E v \in Range(locals.visited) \ {locals.startingNodeID} :
       /\ includes(MapGet(listMap, v).followers, locals.startingNodeID)
       /\ ~MapGet(listMap, v).isTrendSetter

----------------------------------------------------------------------------
(* Properties of the flags across operations. *)

\* C12 as stated: whatever the last call was, every vertex flagged before it
\* is flagged after it (so a flag once true is never false later).
C12_FlagsNeverReset ==
  Flagged(before) \subseteq Flagged(listMap)

\* C12: a call leaves every flagged vertex flagged, except addVertex(id),
\* which replaces vertex id by a fresh, unflagged one.
C12_FlagsResetOnlyByOverwrite ==
  \A v \in Flagged(before) :
    v \in Flagged(listMap) \/ (call.op = "addVertex" /\ call.from = v)

\* The ranker has run again on a graph with a flagged vertex.
C12_Witness ==
  /\ Returned("identifyTrendSetters")
  /\ Flagged(before) # {}
  /\ Flagged(before) \subseteq Flagged(listMap)

----------------------------------------------------------------------------
(* Properties of the edge lists of a graph built by additions only. *)

\* C30: in a graph built by addVertex on fresh IDs and successful addEdge
\* calls, v occurs in u's following list as often as u occurs in v's
\* followers list, for all vertices u and v.
C30_FollowingMirrorsFollowers ==
  \A u \in KeySet(listMap), v \in KeySet(listMap) :
    Count(MapGet(listMap, u).neighbors, v) = Count(MapGet(listMap, v).followers, u)

\* An edge has been added twice, and a vertex follows itself.
C30_Witness ==
  /\ \E u \in KeySet(listMap), v \in KeySet(listMap) :
       u # v /\ Count(MapGet(listMap, u).neighbors, v) = 2
  /\ \E u \in KeySet(listMap) : Count(MapGet(listMap, u).neighbors, u) = 1

----------------------------------------------------------------------------
(* Properties of the component graphs getSCCs returns. *)

\* C24: in every component graph getSCCs returns, each member's following
\* list is the member's following list in the source graph, entry for entry.
C24_ComponentsCopyFollowing ==
  Returned("getSCCs") =>
    \A i \in 1..Len(ret) : \A j \in 1..Len(ret[i]) :
      ret[i][j].neighbors = MapGet(before, ret[i][j].name).neighbors

\* A returned component graph has an edge to an ID outside its vertex set,
\* and one has a duplicated edge.
C24_Witness ==
  /\ Returned("getSCCs")
  /\ \E i \in 1..Len(ret) : \E j \in 1..Len(ret[i]) :
       \E n \in Range(ret[i][j].neighbors) : ~MapHas(ret[i], n)
  /\ \E i \in 1..Len(ret) : \E j \in 1..Len(ret[i]) :
       \E n \in Range(ret[i][j].neighbors) : Count(ret[i][j].neighbors, n) = 2

\* The first-pass finish order of the last call's graph, latest-finished
\* first, as dfs returns it.
FirstPassFinished == dfs(before, getVertexIDs(before)).finished

\* The root of the i-th returned component graph: new CapGraph(v) makes the
\* root v the first key.
SecondPassRoot(i) == ret[i][1].name

\* The vertices the second pass had visited before it chose its i-th root.
VisitedBeforeRoot(i) == UNION {KeySet(ret[k]) : k \in 1..(i - 1)}

\* C23: each root of the second pass finished latest in the first pass among
\* the vertices the second pass had not yet visited.
C23_SecondPassLatestFinishedFirst ==
  Returned("getSCCs") =>
    \A i \in 1..Len(ret) :
      \A w \in KeySet(before) \ VisitedBeforeRoot(i) :
        indexOf(FirstPassFinished, SecondPassRoot(i)) <= indexOf(FirstPassFinished, w)

----------------------------------------------------------------------------
(* Properties of repeated ranking. *)

\* C25: identifyTrendSetters, addEdge and removeEdge leave every flagged
\* vertex flagged, so the set flagged after a ranking contains the set
\* flagged before it and after any earlier ranking.
C25_RankingOnlyAddsMarks ==
  call.op \in {"identifyTrendSetters", "addEdge", "removeEdge"} =>
    Flagged(before) \subseteq Flagged(listMap)

\* A ranking of a graph that had a flagged vertex has flagged another one.
C25_Witness ==
  /\ Returned("identifyTrendSetters")
  /\ Flagged(before) # {}
  /\ Flagged(before) # Flagged(listMap)
  /\ Flagged(before) \subseteq Flagged(listMap)

\* C29: an identifyTrendSetters call that directly follows a returned
\* identifyTrendSetters call leaves the set of flagged vertices as it is.
C29_RankingTwiceIsRankingOnce ==
  [][(Returned("identifyTrendSetters") /\ call'.op = "identifyTrendSetters")
       => Flagged(listMap') = Flagged(listMap)]_vars

\* A ranking has run on a graph with a flagged vertex and changed nothing.
C29_Witness ==
  /\ Returned("identifyTrendSetters")
  /\ Flagged(before) # {}
  /\ before = listMap

----------------------------------------------------------------------------
(* Properties of the sharing step of the simulation. *)

\* The node at the head of the queue.
NextNode == Head(locals.toVisit).node

\* The next loop iteration shares the video from the head of the queue: the
\* head is within the depth limit and has not been visited.
Sharing ==
  /\ pc = "running"
  /\ locals.toVisit # <<>>
  /\ locals.withLimit => Head(locals.toVisit).depth <= locals.maxDepth
  /\ ~includes(locals.visited, NextNode)

\* ceil(n / 5): the least k with 5 k >= n.
CeilFifth(n) == CHOOSE k \in 0..n : 5 * k >= n /\ \A j \in 0..(k - 1) : 5 * j < n

\* The number of entries of v's followers list that are in viewed.
ExposedFollowers(v, viewed) ==
  LET f == MapGet(listMap, v).followers IN
  Cardinality({i \in 1..Len(f) : f[i] \in viewed})

\* The head of the queue is a trend setter whose followers list holds more
\* than ceil(0.2 n) entries that are viewed when the list is scanned (the
\* node itself is viewed by then).
Saturated ==
  /\ Sharing
  /\ MapGet(listMap, NextNode).isTrendSetter
  /\ ExposedFollowers(NextNode, locals.alreadyViewed \cup {NextNode})
       > CeilFifth(Len(MapGet(listMap, NextNode).followers))

\* C21: when a saturated trend setter is processed, the iteration only
\* dequeues it and marks it viewed: no follower is enqueued or marked.
C21_SaturationGateIsAllOrNothing ==
  [][Saturated =>
       /\ locals'.toVisit = Tail(locals.toVisit)
       /\ locals'.alreadyViewed = locals.alreadyViewed \cup {NextNode}]_vars

\* A visited trend setter has a follower that is not viewed and not queued:
\* its gate closed.
C21_Witness ==
  /\ Started
  /\ \E v \in Range(locals.visited) :
       /\ MapGet(listMap, v).isTrendSetter
       /\ \E f \in Range(MapGet(listMap, v).followers) :
            /\ f \notin locals.alreadyViewed
            /\ \A i \in 1..Len(locals.toVisit) : locals.toVisit[i].node # f

\* C22: while a simulation runs, from its initialization on, every node in
\* the queue is in the viewed set.
C22_QueuedNodesAreViewed ==
  pc = "running" =>
    \A i \in 1..Len(locals.toVisit) : locals.toVisit[i].node \in locals.alreadyViewed

----------------------------------------------------------------------------
(* Properties of what a simulation visits. *)

\* S and the followers of its members.
FollowerStep(S) ==
  S \cup UNION {Range(MapGet(listMap, v).followers) : v \in S \cap KeySet(listMap)}

\* The vertices reachable from S by at most k followers-list hops.
RECURSIVE WithinHops(_, _)
WithinHops(S, k) == IF k = 0 THEN S ELSE WithinHops(FollowerStep(S), k - 1)

\* The closure of S under the followers lists.
FollowersClosure(S) == WithinHops(S, Len(listMap))

\* C26: in startViralSharingWithLimit(start, maxDepth) every visited node is
\* within maxDepth followers-list hops of the start node.
C26_VisitedWithinMaxDepth ==
  (Started /\ locals.withLimit) =>
    Range(locals.visited) \subseteq WithinHops({locals.startingNodeID}, locals.maxDepth)

\* A depth-1 run has returned that visited a follower of the start node and
\* left a node further down the followers lists unvisited.
C26_Witness ==
  /\ pc = "returned"
  /\ locals.withLimit
  /\ locals.maxDepth = 1
  /\ Len(locals.visited) >= 2
  /\ FollowersClosure({locals.startingNodeID}) \ Range(locals.visited) # {}

\* C27: when no vertex is flagged, a startViralSharing(start) call that has
\* returned has visited exactly the closure of {start} under the followers
\* lists, whatever the following lists hold.
C27_VisitsFollowersClosure ==
  (pc = "returned" /\ ~locals.withLimit /\ Flagged(listMap) = {}) =>
    Range(locals.visited) = FollowersClosure({locals.startingNodeID})

\* A run has visited a node a that is in the start node's followers list
\* although a's following list no longer holds the start node, and a node
\* that only a later share queued.
C27_Witness ==
  /\ pc = "returned"
  /\ ~locals.withLimit
  /\ Flagged(listMap) = {}
  /\ \E a \in Range(locals.visited) \ {locals.startingNodeID} :
       /\ includes(MapGet(listMap, locals.startingNodeID).followers, a)
       /\ ~includes(MapGet(listMap, a).neighbors, locals.startingNodeID)
  /\ \E c \in Range(locals.visited) \ {locals.startingNodeID} :
       ~includes(MapGet(listMap, locals.startingNodeID).followers, c)

----------------------------------------------------------------------------
(* The two simulations compared. *)

\* The whole run of startViralSharing(start) on the current graph.
PlainRun(start) == runLoop(listMap, startLocals(listMap, start, FALSE, 0), <<>>, <<>>)

\* The whole run of the startViralSharingWithLimit call that has just begun.
LimitRun == runLoop(listMap, locals, <<>>, <<>>)

\* A startViralSharingWithLimit call has reached its loop with a maxDepth
\* that is at least the number of vertices.
DeepLimitCallBegins ==
  /\ pc = "running"
  /\ locals.withLimit
  /\ locals = startLocals(listMap, locals.startingNodeID, TRUE, locals.maxDepth)
  /\ locals.maxDepth >= Len(listMap)

\* C28: with maxDepth at least the number of vertices, the run of
\* startViralSharingWithLimit dequeues the nodes startViralSharing dequeues,
\* in the same order, visits the same nodes in the same order and emits
\* generations of the same sizes.
C28_DeepLimitRunEqualsPlainRun ==
  DeepLimitCallBegins =>
    LET plain == PlainRun(locals.startingNodeID) IN
    /\ LimitRun.dequeued = plain.dequeued
    /\ LimitRun.locals.visited = plain.locals.visited
    /\ LimitRun.sizes = plain.sizes
    /\ ~LimitRun.threw /\ ~plain.threw

\* Such a call begins on a graph where the run dequeues a node it has
\* already visited and visits at least three nodes.
C28_Witness ==
  /\ DeepLimitCallBegins
  /\ Len(LimitRun.locals.visited) >= 3
  /\ Len(LimitRun.dequeued) > Len(LimitRun.locals.visited)

====
